---- MODULE Spec2Model ----
(***************************************************************************)
(* Event capacity and attendee admission workflow of the Scene backend:    *)
(* the express routes for event creation, RSVP, payment intent, payment    *)
(* confirmation and analytics, over the events and attendees tables.       *)
(*                                                                         *)
(* The server is one Node.js process and the store is better-sqlite3,      *)
(* whose statements are synchronous.  A route handler therefore runs to    *)
(* completion as one step unless it awaits.  Requests are in flight        *)
(* together while express.json reads their bodies, before the router       *)
(* dispatches them, and while a handler awaits the payment gateway.        *)
(***************************************************************************)
EXTENDS Integers, Sequences, FiniteSets

VARIABLES events, attendees, inflight, awaiting, last

vars == <<events, attendees, inflight, awaiting, last>>

(***************************************************************************)
(* Bounds of the model.                                                    *)
(***************************************************************************)
MaxEvents == 1
MaxAttendees == 2
MaxInflight == 2

(***************************************************************************)
(* Input domains.  Identifiers are uuidv4 values; the model numbers rows   *)
(* in insertion order, so a row's identifier is its index, and the first   *)
(* index beyond a table stands for every identifier that matches no row of *)
(* it.  An organiser asks for a capacity of 0, 1 or 2 and a price of 10.   *)
(* Request bodies are well formed: every field a handler binds to a        *)
(* statement is present, and capacities are integers (events.capacity is   *)
(* an INTEGER column).                                                     *)
(***************************************************************************)
Ids(table) == 1..(Len(table) + 1)
EventIds == Ids(events)
AttendeeIds == Ids(attendees)
Capacities == {0, 1, 2}
TicketPrices == {10}
PaymentIds == {"pi_1", "pi_2"}
Tokens == {"valid", "invalid", "missing"}
AuthenticatedRoutes == {"create", "analytics"}

(* SQL NULL / JS null, and a present value, for a nullable number or text. *)
Null == <<>>
Some(v) == <<v>>

(* JS ToNumber as used by `*`: null is 0. *)
ToNumber(v) == IF v = Null THEN 0 ELSE v[1]

(* JS truthiness of a number. *)
Truthy(n) == n # 0

(***************************************************************************)
(* The response the server sent last: the route that answered, the :id it  *)
(* was called with (0 where the route has none or did not read it), the    *)
(* status code and the body.  `prior` is a history field, not part of the  *)
(* response: the status the row addressed by a confirm-payment had when    *)
(* the handler started ("" for every other route).                         *)
(***************************************************************************)
Resp(kind, id, code, body) ==
    [kind |-> kind, id |-> id, code |-> code, body |-> body, prior |-> ""]

Error(msg) == [error |-> msg]

NoResponse == Resp("none", 0, 0, Error(""))

(***************************************************************************)
(* Store access.                                                           *)
(***************************************************************************)
\* SELECT ... FROM t WHERE id = ? with .get(): a row, or undefined.
Exists(table, id) == id \in DOMAIN table

\* uuidv4: an identifier no row has.
uuidv4(table) == Len(table) + 1

(* Mutant: the count leaves out the attendees who have paid. *)
CountAttendees_unpaidOnly(att, eventId) ==
    Cardinality({i \in DOMAIN att :
                    att[i].event_id = eventId /\ att[i].status # "paid"})

\* SELECT COUNT of the attendees WHERE event_id = ?
CountAttendees(att, eventId) ==
    Cardinality({i \in DOMAIN att : att[i].event_id = eventId})

(* SUM(CASE WHEN status = s THEN 1 ELSE 0 END) over the rows of the event: *)
(* NULL when no row matches the WHERE clause.                              *)
RECURSIVE SumCase(_, _, _, _)
SumCase(att, eventId, s, n) ==
    IF n = 0 THEN Null
    ELSE LET rest == SumCase(att, eventId, s, n - 1)
             term == IF att[n].status = s THEN 1 ELSE 0
         IN  IF att[n].event_id # eventId THEN rest
             ELSE Some(ToNumber(rest) + term)

Stats(att, eventId) ==
    [total_attendees |-> CountAttendees(att, eventId),
     paid_count |-> SumCase(att, eventId, "paid", Len(att)),
     unpaid_count |-> SumCase(att, eventId, "unpaid", Len(att)),
     waitlist_count |-> SumCase(att, eventId, "waitlist", Len(att))]

(***************************************************************************)
(* Pieces of the handlers.                                                 *)
(***************************************************************************)
(* authenticateToken: 401 without a token, 403 when jwt.verify fails,      *)
(* otherwise next() (0 here).                                              *)
authenticateToken(token) ==
    IF token = "missing" THEN 401
    ELSE IF token = "invalid" THEN 403
    ELSE 0

(* The row POST /api/events inserts: isPaid ? 1 : 0, ticketPrice || 0. *)
EventRow(capacity, isPaid, ticketPrice) ==
    [capacity |-> capacity,
     is_paid |-> IF isPaid THEN 1 ELSE 0,
     ticket_price |-> IF Truthy(ticketPrice) THEN ticketPrice ELSE 0]

(* Mutant: off by one, the event is full only above its capacity. *)
IsFull_strict(count, capacity) == count > capacity

(* currentAttendees.count >= event.capacity *)
IsFull(count, capacity) == count >= capacity

(* Mutant: the two branches swapped. *)
InitialStatus_swapped(event) ==
    IF Truthy(event.is_paid) THEN "confirmed" ELSE "unpaid"

(* event.is_paid ? 'unpaid' : 'confirmed' *)
InitialStatus(event) == IF Truthy(event.is_paid) THEN "unpaid" ELSE "confirmed"

(* INSERT INTO attendees (id, event_id, name, email, status, custom_answers) *)
InsertAttendee(att, eventId, status) ==
    Append(att, [event_id |-> eventId, status |-> status, payment_id |-> Null])

(* Mutant: the update toggles the status of a row that is already paid. *)
UpdatePaid_toggle(att, id, paymentId) ==
    [i \in DOMAIN att |->
        IF i = id
        THEN [att[i] EXCEPT
                !.status = IF att[i].status = "paid" THEN "unpaid" ELSE "paid",
                !.payment_id = Some(paymentId)]
        ELSE att[i]]

(* Mutant: a confirmation of a paid attendee records one more paid row. *)
UpdatePaid_insert(att, id, paymentId) ==
    IF id \in DOMAIN att /\ att[id].status = "paid" /\ Len(att) < MaxAttendees
    THEN Append(att, [att[id] EXCEPT !.payment_id = Some(paymentId)])
    ELSE [i \in DOMAIN att |->
            IF i = id
            THEN [att[i] EXCEPT !.status = "paid", !.payment_id = Some(paymentId)]
            ELSE att[i]]

(* UPDATE attendees SET status = 'paid', payment_id = ? WHERE id = ? *)
UpdatePaid(att, id, paymentId) ==
    [i \in DOMAIN att |->
        IF i = id
        THEN [att[i] EXCEPT !.status = "paid", !.payment_id = Some(paymentId)]
        ELSE att[i]]

(* Mutant: the payment flag is not consulted. *)
Revenue_anyEvent(event, stats) == ToNumber(stats.paid_count) * event.ticket_price

(* event.is_paid ? stats.paid_count * event.ticket_price : 0 *)
Revenue(event, stats) ==
    IF Truthy(event.is_paid)
    THEN ToNumber(stats.paid_count) * event.ticket_price
    ELSE 0

(* The body GET /api/events/:id/analytics answers with. *)
Summary(ev, att, eventId) ==
    LET stats == Stats(att, eventId)
    IN  [total_attendees |-> stats.total_attendees,
         paid_count |-> stats.paid_count,
         unpaid_count |-> stats.unpaid_count,
         waitlist_count |-> stats.waitlist_count,
         revenue |-> Revenue(ev[eventId], stats),
         capacity |-> ev[eventId].capacity]

(***************************************************************************)
(* The database file is created empty; no request has been served.         *)
(***************************************************************************)
Init ==
    /\ events = <<>>
    /\ attendees = <<>>
    /\ inflight = 0
    /\ awaiting = 0
    /\ last = NoResponse

(***************************************************************************)
(* A request arrives and express.json starts reading its body.  Its route, *)
(* parameters, headers and body are read when it is dispatched, and are    *)
(* inputs of the handler's step.                                           *)
(***************************************************************************)
Receive ==
    /\ inflight + awaiting < MaxInflight
    /\ inflight' = inflight + 1
    /\ UNCHANGED <<events, attendees, awaiting, last>>

(* A request whose body is read is dispatched to its handler. *)
Dispatch ==
    /\ inflight > 0
    /\ inflight' = inflight - 1

(***************************************************************************)
(* A request for a route behind authenticateToken (POST /api/events, GET   *)
(* /api/events/:id/analytics) is turned away by the middleware; the        *)
(* handler does not run.                                                   *)
(***************************************************************************)
Unauthorized(kind, token) ==
    /\ Dispatch
    /\ authenticateToken(token) # 0
    /\ last' = Resp(kind, 0, authenticateToken(token), Error(""))
    /\ UNCHANGED <<events, attendees, awaiting>>

(***************************************************************************)
(* POST /api/events, past authenticateToken.                               *)
(***************************************************************************)
CreateEvent(token, capacity, isPaid, ticketPrice) ==
    /\ Dispatch
    /\ authenticateToken(token) = 0
    /\ Len(events) < MaxEvents
    /\ events' = Append(events, EventRow(capacity, isPaid, ticketPrice))
    /\ last' = Resp("create", 0, 200, [eventId |-> uuidv4(events)])
    /\ UNCHANGED <<attendees, awaiting>>

(* Mutant: the handler does not test the lookup's result; reading          *)
(* event.capacity of undefined throws and the catch answers 500.           *)
Rsvp_unchecked(eventId) ==
    /\ Dispatch
    /\ IF ~Exists(events, eventId)
       THEN /\ last' = Resp("rsvp", eventId, 500, Error("RSVP failed"))
            /\ UNCHANGED attendees
       ELSE IF IsFull(CountAttendees(attendees, eventId), events[eventId].capacity)
       THEN /\ last' = Resp("rsvp", eventId, 400, Error("Event is full"))
            /\ UNCHANGED attendees
       ELSE LET status == InitialStatus(events[eventId])
            IN  /\ Len(attendees) < MaxAttendees
                /\ attendees' = InsertAttendee(attendees, eventId, status)
                /\ last' = Resp("rsvp", eventId, 200,
                                [attendeeId |-> uuidv4(attendees), status |-> status])
    /\ UNCHANGED <<events, awaiting>>

(***************************************************************************)
(* POST /api/events/:id/rsvp.  No await between the lookup, the count and  *)
(* the insert: the handler is one step.                                    *)
(***************************************************************************)
Rsvp(eventId) ==
    /\ Dispatch
    /\ IF ~Exists(events, eventId)
       THEN /\ last' = Resp("rsvp", eventId, 404, Error("Event not found"))
            /\ UNCHANGED attendees
       ELSE IF IsFull(CountAttendees(attendees, eventId), events[eventId].capacity)
       THEN /\ last' = Resp("rsvp", eventId, 400, Error("Event is full"))
            /\ UNCHANGED attendees
       ELSE LET status == InitialStatus(events[eventId])
            IN  /\ Len(attendees) < MaxAttendees
                /\ attendees' = InsertAttendee(attendees, eventId, status)
                /\ last' = Resp("rsvp", eventId, 200,
                                [attendeeId |-> uuidv4(attendees), status |-> status])
    /\ UNCHANGED <<events, awaiting>>

(***************************************************************************)
(* POST /api/attendees/:id/payment, up to the await of the gateway call.   *)
(* The call either throws at once (`stripe` is null when no key is         *)
(* configured) and is caught, or returns a promise the handler awaits.     *)
(***************************************************************************)
Payment(id) ==
    /\ Dispatch
    /\ IF ~Exists(attendees, id)
       THEN /\ last' = Resp("payment", id, 404, Error("Attendee not found"))
            /\ UNCHANGED awaiting
       ELSE \/ /\ last' = Resp("payment", id, 500, Error("Payment initiation failed"))
               /\ UNCHANGED awaiting
            \/ /\ awaiting' = awaiting + 1
               /\ UNCHANGED last
    /\ UNCHANGED <<events, attendees>>

(* The gateway call settles: the promise resolves, or rejects into catch. *)
PaymentSettled ==
    /\ awaiting > 0
    /\ awaiting' = awaiting - 1
    /\ \/ last' = Resp("payment", 0, 200, [clientSecret |-> "secret"])
       \/ last' = Resp("payment", 0, 500, Error("Payment initiation failed"))
    /\ UNCHANGED <<events, attendees, inflight>>

(***************************************************************************)
(* POST /api/attendees/:id/confirm-payment                                 *)
(***************************************************************************)
ConfirmPayment(id, paymentId) ==
    /\ Dispatch
    /\ attendees' = UpdatePaid(attendees, id, paymentId)
    /\ last' = [Resp("confirm", id, 200, [message |-> "Payment confirmed"])
                  EXCEPT !.prior = IF Exists(attendees, id)
                                   THEN attendees[id].status ELSE "none"]
    /\ UNCHANGED <<events, awaiting>>

(***************************************************************************)
(* GET /api/events/:id/analytics, past authenticateToken.                  *)
(***************************************************************************)
Analytics(token, eventId) ==
    /\ Dispatch
    /\ authenticateToken(token) = 0
    /\ IF ~Exists(events, eventId)
       THEN last' = Resp("analytics", eventId, 404, Error("Event not found"))
       ELSE last' = Resp("analytics", eventId, 200,
                         Summary(events, attendees, eventId))
    /\ UNCHANGED <<events, attendees, awaiting>>

Next ==
    \/ Receive
    \/ \E kind \in AuthenticatedRoutes, token \in Tokens : Unauthorized(kind, token)
    \/ \E token \in Tokens, capacity \in Capacities, isPaid \in BOOLEAN,
          ticketPrice \in TicketPrices :
            CreateEvent(token, capacity, isPaid, ticketPrice)
    \/ \E eventId \in EventIds : Rsvp(eventId)
    \/ \E id \in AttendeeIds : Payment(id)
    \/ PaymentSettled
    \/ \E id \in AttendeeIds, paymentId \in PaymentIds : ConfirmPayment(id, paymentId)
    \/ \E token \in Tokens, eventId \in EventIds : Analytics(token, eventId)

Spec == Init /\ [][Next]_vars

(***************************************************************************)
(* Vocabulary of the properties.                                           *)
(***************************************************************************)
(* This step is a handler of route `kind` answering a request for `id`:    *)
(* a dispatch that did not suspend, so `last` is the handler's response.   *)
Handled(kind, id) ==
    /\ inflight' = inflight - 1
    /\ awaiting' = awaiting
    /\ last'.kind = kind
    /\ last'.id = id

AttendeesOf(att, e) == {i \in DOMAIN att : att[i].event_id = e}
PaidOf(att, e) == {i \in AttendeesOf(att, e) : att[i].status = "paid"}

(* C1: for every event with capacity C >= 0, whatever requests are in      *)
(* flight together and in whatever order they are dispatched, the number   *)
(* of attendee records of the event never exceeds C.                       *)
C1_CapacityNeverExceeded ==
    \A e \in DOMAIN events :
        events[e].capacity >= 0 =>
            Cardinality(AttendeesOf(attendees, e)) <= events[e].capacity

(* An event filled to a capacity of at least 1 has turned an RSVP away     *)
(* while another request was in flight.                                    *)
C1_Witness ==
    \E e \in DOMAIN events :
        /\ events[e].capacity >= 1
        /\ Cardinality(AttendeesOf(attendees, e)) = events[e].capacity
        /\ last.kind = "rsvp" /\ last.id = e /\ last.code = 400
        /\ inflight >= 1

(* C2: every RSVP that succeeds inserts exactly one attendee record, whose *)
(* status is 'confirmed' when the event's payment flag is off and 'unpaid' *)
(* when it is on; the status returned is the status stored; it is never    *)
(* 'paid' or 'waitlist'.                                                   *)
C2_RsvpInitialStatus ==
    [][\A e \in EventIds :
        (Handled("rsvp", e) /\ last'.code = 200) =>
            /\ Len(attendees') = Len(attendees) + 1
            /\ SubSeq(attendees', 1, Len(attendees)) = attendees
            /\ LET row == attendees'[Len(attendees')]
               IN  /\ row.event_id = e
                   /\ row.status = IF events[e].is_paid = 0
                                   THEN "confirmed" ELSE "unpaid"
                   /\ last'.body.status = row.status
                   /\ row.status \notin {"paid", "waitlist"}]_vars

(* The last response is a successful RSVP to a paid event, answered        *)
(* 'unpaid', after a successful RSVP to it already stored a row.           *)
C2_Witness ==
    /\ last.kind = "rsvp" /\ last.code = 200
    /\ last.body.status = "unpaid"
    /\ last.body.attendeeId = 2
    /\ attendees[2].status = "unpaid"

(* C3: an RSVP whose event identifier matches no event record is answered  *)
(* 404 'Event not found' and leaves every table as it was.                 *)
C3_RsvpUnknownEvent ==
    [][\A e \in EventIds :
        (Handled("rsvp", e) /\ ~(e \in DOMAIN events)) =>
            /\ last'.code = 404
            /\ last'.body = Error("Event not found")
            /\ attendees' = attendees
            /\ events' = events]_vars

(* An RSVP for an unknown event was answered 404 while the tables held an  *)
(* event and an attendee.                                                  *)
C3_Witness ==
    /\ last.kind = "rsvp" /\ last.code = 404
    /\ ~(last.id \in DOMAIN events)
    /\ Len(events) >= 1
    /\ Len(attendees) >= 1

(* C4: an RSVP for an existing event whose attendee count, every status    *)
(* counted, is at least the capacity is answered 'Event is full' and       *)
(* inserts nothing; for a free event of capacity 1 the first RSVP is       *)
(* answered 'confirmed' and every later one 'Event is full'.               *)
C4_RsvpFullEvent ==
    [][\A e \in DOMAIN events :
        LET count == Cardinality(AttendeesOf(attendees, e))
            full == /\ last'.code = 400
                    /\ last'.body = Error("Event is full")
                    /\ attendees' = attendees
        IN  /\ (Handled("rsvp", e) /\ count >= events[e].capacity) => full
            /\ (Handled("rsvp", e) /\ events[e].capacity = 1
                                   /\ events[e].is_paid = 0) =>
                    IF count = 0
                    THEN last'.code = 200 /\ last'.body.status = "confirmed"
                    ELSE full]_vars

(* A free event of capacity 1 holds its one attendee, now paid, and the    *)
(* last RSVP for it was answered 'Event is full'.                          *)
C4_Witness ==
    \E e \in DOMAIN events :
        /\ events[e].capacity = 1 /\ events[e].is_paid = 0
        /\ \E i \in AttendeesOf(attendees, e) : attendees[i].status = "paid"
        /\ last.kind = "rsvp" /\ last.id = e /\ last.code = 400
        /\ last.body = Error("Event is full")

(* C5: 'paid' is terminal: an attendee whose status is 'paid' has status   *)
(* 'paid' after every step, whatever request is served.                    *)
C5_PaidIsTerminal ==
    [][\A i \in DOMAIN attendees :
        attendees[i].status = "paid" =>
            /\ i \in DOMAIN attendees'
            /\ attendees'[i].status = "paid"]_vars

(* A paid attendee has had its payment confirmed once more and is paid.    *)
C5_Witness ==
    /\ last.kind = "confirm" /\ last.prior = "paid"
    /\ last.id \in DOMAIN attendees
    /\ attendees[last.id].status = "paid"
    /\ attendees[last.id].payment_id = Some("pi_2")

(* C6: a confirm-payment on an attendee that is already 'paid' leaves the  *)
(* paid count and the revenue of the analytics summary of the attendee's   *)
(* event as they were, whatever payment reference it carries.              *)
C6_ReconfirmKeepsRevenue ==
    [][\A i \in DOMAIN attendees :
        (Handled("confirm", i) /\ attendees[i].status = "paid") =>
            LET e == attendees[i].event_id
                before == Summary(events, attendees, e)
                after == Summary(events', attendees', e)
            IN  /\ after.paid_count = before.paid_count
                /\ after.revenue = before.revenue]_vars

(* A paid attendee of a paid event was confirmed again; the event's        *)
(* summary reports one paid attendee and the price of one ticket.          *)
C6_Witness ==
    /\ last.kind = "confirm" /\ last.prior = "paid"
    /\ last.id \in DOMAIN attendees
    /\ LET e == attendees[last.id].event_id
       IN  /\ events[e].is_paid = 1
           /\ Summary(events, attendees, e).paid_count = Some(1)
           /\ Summary(events, attendees, e).revenue = events[e].ticket_price

(* C7: the analytics summary of an existing event reports revenue equal to *)
(* (number of its attendees with status 'paid') x (ticket price) when the  *)
(* payment flag is on and 0 when it is off, in every state, an event with  *)
(* no attendees included; the body the route last answered says the same.  *)
C7_AnalyticsRevenue ==
    LET expected(e) == IF events[e].is_paid = 1
                       THEN Cardinality(PaidOf(attendees, e)) * events[e].ticket_price
                       ELSE 0
    IN  /\ \A e \in DOMAIN events :
            Summary(events, attendees, e).revenue = expected(e)
        /\ (last.kind = "analytics" /\ last.code = 200) =>
            last.body.revenue = expected(last.id)

(* A paid event of capacity 2 and price 10 has two attendees, one paid and *)
(* one unpaid, and analytics answered paid_count 1 and revenue 10.         *)
C7_Witness ==
    /\ last.kind = "analytics" /\ last.code = 200
    /\ LET e == last.id
       IN  /\ events[e].capacity = 2 /\ events[e].is_paid = 1
           /\ events[e].ticket_price = 10
           /\ Cardinality(AttendeesOf(attendees, e)) = 2
           /\ \E i, j \in AttendeesOf(attendees, e) :
                attendees[i].status = "paid" /\ attendees[j].status = "unpaid"
    /\ last.body.paid_count = Some(1)
    /\ last.body.revenue = 10

(* C8: every attendee's status agrees with its event's payment flag:       *)
(* 'unpaid' or 'paid' for a paid event, 'confirmed' for a free event.      *)
C8_StatusAgreesWithPaymentFlag ==
    \A i \in DOMAIN attendees :
        IF events[attendees[i].event_id].is_paid = 1
        THEN attendees[i].status \in {"unpaid", "paid"}
        ELSE attendees[i].status = "confirmed"

(* C9: a confirm-payment whose attendee identifier matches no attendee     *)
(* record fails with NotFound and leaves the store unchanged.              *)
C9_ConfirmUnknownAttendee ==
    [][\A id \in AttendeeIds :
        (Handled("confirm", id) /\ ~(id \in DOMAIN attendees)) =>
            /\ last'.code = 404
            /\ attendees' = attendees
            /\ events' = events]_vars

(* C10: an attendee record is never deleted and its stored fields change   *)
(* at most once, on a payment confirmation: a record that has been         *)
(* confirmed (its status is 'paid') keeps its status and its payment       *)
(* reference through every later step.                                     *)
C10_MutatedAtMostOnce ==
    [][\A i \in DOMAIN attendees :
        /\ i \in DOMAIN attendees'
        /\ attendees[i].status = "paid" => attendees'[i] = attendees[i]]_vars
====
